---- MODULE Spec2Model ----
(***************************************************************************)
(* VeriAI backend: challenge-response handshake between agents, session    *)
(* issuance and rule-based anomaly scoring.                                *)
(*                                                                         *)
(* Sources: backend/app/main.py (request handlers and the in-memory        *)
(* stores), backend/app/handshake.py (HandshakeManager),                   *)
(* backend/app/ml_detector.py (MLDetector).                                *)
(*                                                                         *)
(* Every request handler is an "async def" without an await that suspends, *)
(* so the event loop runs each handler to completion: one action per       *)
(* handler.  Times are integers in milliseconds, scores are integers in    *)
(* thousandths, entropies are integers in thousandths of a bit.            *)
(***************************************************************************)
EXTENDS Integers, Sequences, FiniteSets, TLC

VARIABLES agents_db, handshakes_db, sessions_db, logs, thresholds, now,
          request, result

vars == <<agents_db, handshakes_db, sessions_db, logs, thresholds, now,
          request, result>>

(***************************************************************************)
(* Bounds of the model.                                                    *)
(***************************************************************************)
MaxHandshakes == 1
MaxSessions == 2
MaxLogs == 1
MaxMargin == 1

(***************************************************************************)
(* Input domains.                                                          *)
(***************************************************************************)
\* Python's None for an omitted Optional[str] field.
None == "<None>"

AgentIds == {"agent_b", "fake_agent_f"}
RequesterIds == {"agent_a"}
\* secret_seed values a caller registers with (main.py:549, main.py:560).
CallerSeeds == {"genuine_secret_b", "wrong_secret_key"}
\* values secrets.token_hex(32) can return (one representative).
RandomSeeds == {"9f3c_random_seed"}
Seeds == CallerSeeds \cup RandomSeeds
\* registration requests <<agent_id, agent_type, secret_seed>>: the genuine
\* agent without and with a key of its own (main.py:367, main.py:546-550),
\* the fake agent (main.py:557-561), and a registration under the genuine
\* agent's id with the fake agent's type and key.
Registrations ==
    {<<"agent_b", "genuine", None>>,
     <<"agent_b", "genuine", "genuine_secret_b">>,
     <<"fake_agent_f", "fake", "wrong_secret_key">>,
     <<"agent_b", "fake", "wrong_secret_key">>}

\* values of secrets.token_hex(16) for handshake ids and nonces, and of
\* secrets.token_urlsafe(32) for session tokens.
HandshakeIdPool == <<"hs_1", "hs_2", "hs_3", "hs_4">>
NoncePool == <<"nonce_1", "nonce_2", "nonce_3", "nonce_4">>
TokenPool == <<"tok_1xxxxxxx", "tok_2xxxxxxx", "tok_3xxxxxxx", "tok_4xxxxxxx">>
HandshakeIds == {HandshakeIdPool[i] : i \in 1..MaxHandshakes}
Nonces == {NoncePool[i] : i \in 1..MaxHandshakes}
Tokens == {TokenPool[i] : i \in 1..MaxSessions}

\* time.time() in milliseconds: the instants the clock is sampled at.
ClockValues == {1000, 1005}
StartTime == CHOOSE t \in ClockValues : \A u \in ClockValues : t <= u

\* The random identifiers are opaque and interchangeable: a fresh one is the
\* first value of the pool that is not in use (none when the pool is used up).
Fresh_Reuse(pool, values, used) == {pool[1]}
Fresh(pool, values, used) ==
    {pool[i] : i \in {j \in 1..Len(pool) :
                        /\ pool[j] \in values \ used
                        /\ \A k \in 1..(j-1) : pool[k] \notin values \ used}}

(***************************************************************************)
(* Dictionaries.                                                           *)
(***************************************************************************)
EmptyDict == [k \in {} |-> 0]
Get(d, k, default) == IF k \in DOMAIN d THEN d[k] ELSE default
Put(d, k, v) == (k :> v) @@ d

(***************************************************************************)
(* HandshakeManager: signatures.                                           *)
(*                                                                         *)
(* A signature string is a sequence of characters.  HMAC-SHA256 is         *)
(* represented by a fixed-length digest over the lowercase hex alphabet    *)
(* that is injective on (key, message): two characters determined by the   *)
(* key and the message, followed by six fixed distinct hex digits.         *)
(***************************************************************************)
KeyHex == ("genuine_secret_b" :> "a") @@ ("wrong_secret_key" :> "b")
          @@ ("9f3c_random_seed" :> "c")
NonceHex == ("nonce_1" :> "1") @@ ("nonce_2" :> "2") @@ ("nonce_3" :> "3")
            @@ ("nonce_4" :> "4")

\* str.encode(): the bytes of a string, a value of another type than the string.
Encode(s) == [bytes |-> s]

HmacSha256Hex(key, msg) ==
    <<KeyHex[key.bytes], NonceHex[msg.bytes], "0", "7", "8", "9", "d", "e">>

generate_signature(nonce, secret_seed) == HmacSha256Hex(secret_seed, Encode(nonce))

\* characters outside ASCII
NonAscii == {"\\u00e9"}
IsAscii(s) == \A i \in 1..Len(s) : s[i] \notin NonAscii

\* The outcome of a call: the value it returns, or the exception it raises.
Returns(v) == [exc |-> None, value |-> v]
Raises(e) == [exc |-> e, value |-> FALSE]

\* hmac.compare_digest on two str arguments: raises TypeError when either
\* holds a non-ASCII character, otherwise compares the two strings exactly.
compare_digest_folded(a, b) ==
    IF ~IsAscii(a) \/ ~IsAscii(b) THEN Raises("TypeError")
    ELSE Returns(Len(a) = Len(b) /\ \A i \in 1..Len(a) :
            \/ a[i] = b[i]
            \/ <<a[i], b[i]>> \in {<<"A", "a">>, <<"B", "b">>, <<"C", "c">>,
                                   <<"D", "d">>, <<"E", "e">>})
compare_digest(a, b) ==
    IF ~IsAscii(a) \/ ~IsAscii(b) THEN Raises("TypeError") ELSE Returns(a = b)

verify_signature(nonce, signature, secret_seed) ==
    LET expected_signature == generate_signature(nonce, secret_seed)
    IN  compare_digest(signature, expected_signature)

\* str.upper() on the hex alphabet of a digest
Upper(s) == [i \in 1..Len(s) |->
               CASE s[i] = "a" -> "A" [] s[i] = "b" -> "B" [] s[i] = "c" -> "C"
                 [] s[i] = "d" -> "D" [] s[i] = "e" -> "E" [] OTHER -> s[i]]

\* signature strings a caller submits for a challenge nonce: the digest under
\* a key the caller holds, a string that is no digest (agents/agent_f.py:62-67)
\* and a string with a non-ASCII character.
FakeSignatures == {<<"f", "a", "k", "e">>, <<"\\u00e9">>}
SignatureInputs(nonce) ==
    {generate_signature(nonce, Encode(k)) : k \in CallerSeeds} \cup FakeSignatures

(***************************************************************************)
(* MLDetector: features and the rule-based score.                          *)
(***************************************************************************)
\* str.lower() on the characters of the model's alphabet
Lower(c) == CASE c = "A" -> "a" [] c = "B" -> "b" [] c = "C" -> "c"
              [] c = "D" -> "d" [] c = "E" -> "e" [] OTHER -> c

\* 1000 * log2(n), rounded, for the lengths and counts of the model's strings
Log2Milli == <<0, 1000, 1585, 2000, 2322, 2585, 2807, 3000>>

RECURSIVE SumOver(_, _)
SumOver(S, f) == IF S = {} THEN 0
                 ELSE LET x == CHOOSE y \in S : TRUE
                      IN  f[x] + SumOver(S \ {x}, f)

\* Shannon entropy of text in thousandths of a bit:
\* -sum p*log2(p) = sum (count/length) * (log2(length) - log2(count)).
_calculate_entropy(text) ==
    IF Len(text) = 0 THEN 0
    ELSE LET lowered == [i \in 1..Len(text) |-> Lower(text[i])]
             chars == {lowered[i] : i \in 1..Len(text)}
             char_counts == [c \in chars |->
                               Cardinality({i \in 1..Len(text) : lowered[i] = c})]
             text_length == Len(text)
             terms == [c \in chars |-> char_counts[c]
                          * (Log2Milli[text_length] - Log2Milli[char_counts[c]])]
         IN  SumOver(chars, terms) \div text_length

\* extract_features(handshake_data) with time.time() = current_time
extract_features_answered(handshake_data, current_time) ==
    [signature_verification |->
        IF "signature_valid" \in DOMAIN handshake_data THEN 1 ELSE 0,
     response_latency_ms |->
        IF "response_time" \in DOMAIN handshake_data
           /\ "created_at" \in DOMAIN handshake_data
        THEN handshake_data["response_time"] - handshake_data["created_at"]
        ELSE 0,
     message_entropy |-> _calculate_entropy(Get(handshake_data, "signature", <<>>)),
     handshake_duration |->
        current_time - Get(handshake_data, "created_at", current_time)]
extract_features_elapsed(handshake_data, current_time) ==
    [signature_verification |->
        IF Get(handshake_data, "signature_valid", FALSE) THEN 1 ELSE 0,
     response_latency_ms |->
        current_time - Get(handshake_data, "created_at", current_time),
     message_entropy |-> _calculate_entropy(Get(handshake_data, "signature", <<>>)),
     handshake_duration |->
        current_time - Get(handshake_data, "created_at", current_time)]
extract_features_trusting(handshake_data, current_time) ==
    [signature_verification |->
        IF Get(handshake_data, "signature_valid", TRUE) THEN 1 ELSE 0,
     response_latency_ms |->
        IF "response_time" \in DOMAIN handshake_data
           /\ "created_at" \in DOMAIN handshake_data
        THEN handshake_data["response_time"] - handshake_data["created_at"]
        ELSE 0,
     message_entropy |-> _calculate_entropy(Get(handshake_data, "signature", <<>>)),
     handshake_duration |->
        current_time - Get(handshake_data, "created_at", current_time)]
extract_features(handshake_data, current_time) ==
    [signature_verification |->
        IF Get(handshake_data, "signature_valid", FALSE) THEN 1 ELSE 0,
     response_latency_ms |->
        IF "response_time" \in DOMAIN handshake_data
           /\ "created_at" \in DOMAIN handshake_data
        THEN handshake_data["response_time"] - handshake_data["created_at"]
        ELSE 0,
     message_entropy |-> _calculate_entropy(Get(handshake_data, "signature", <<>>)),
     handshake_duration |->
        current_time - Get(handshake_data, "created_at", current_time)]

Min_NoCap(a, b) == b
Min(a, b) == IF a < b THEN a ELSE b

\* the exception the try block of predict_anomaly raises under the
\* thresholds th, None when it raises none: a threshold that is missing is a
\* KeyError, a range that is not a pair cannot be unpacked
PredictRaises(th, features) ==
    IF "response_latency_ms" \notin DOMAIN th THEN "KeyError"
    ELSE IF Len(th["response_latency_ms"]) # 2 THEN "ValueError"
    ELSE IF "message_entropy" \notin DOMAIN th THEN "KeyError"
    ELSE IF "handshake_duration" \notin DOMAIN th THEN "KeyError"
    ELSE IF Len(th["handshake_duration"]) # 2 THEN "ValueError"
    ELSE None

\* predict_anomaly(features) under the thresholds th, in thousandths
predict_anomaly_inclusive(th, features) ==
    IF PredictRaises(th, features) # None THEN 500
    ELSE
    LET sig == IF Get(features, "signature_verification", 1) = 0 THEN 600 ELSE 0
        latency == Get(features, "response_latency_ms", 150)
        lat_min == th["response_latency_ms"][1]
        lat_max == th["response_latency_ms"][2]
        lat == IF latency <= lat_min THEN 300
               ELSE IF latency >= lat_max THEN 200 ELSE 0
        ent == IF Get(features, "message_entropy", 3000) <= th["message_entropy"]
               THEN 250 ELSE 0
        duration == Get(features, "handshake_duration", 200)
        dur_min == th["handshake_duration"][1]
        dur_max == th["handshake_duration"][2]
        dur == IF duration <= dur_min THEN 200
               ELSE IF duration >= dur_max THEN 100 ELSE 0
    IN  Min(1000, sig + lat + ent + dur)
predict_anomaly(th, features) ==
    IF PredictRaises(th, features) # None THEN 500
    ELSE
    LET sig == IF Get(features, "signature_verification", 1) = 0 THEN 600 ELSE 0
        latency == Get(features, "response_latency_ms", 150)
        lat_min == th["response_latency_ms"][1]
        lat_max == th["response_latency_ms"][2]
        lat == IF latency < lat_min THEN 300
               ELSE IF latency > lat_max THEN 200 ELSE 0
        entropy == Get(features, "message_entropy", 3000)
        min_entropy == th["message_entropy"]
        ent == IF entropy < min_entropy THEN 250 ELSE 0
        duration == Get(features, "handshake_duration", 200)
        dur_min == th["handshake_duration"][1]
        dur_max == th["handshake_duration"][2]
        dur == IF duration < dur_min THEN 200
               ELSE IF duration > dur_max THEN 100 ELSE 0
    IN  Min(1000, sig + lat + ent + dur)

\* the thresholds set by MLDetector.__init__
InitThresholds ==
    [signature_verification |-> 1,
     response_latency_ms |-> <<50, 500>>,
     message_entropy |-> 2000,
     handshake_duration |-> <<100, 1000>>]
\* thresholds _calculate_thresholds derives from the synthetic default data
\* at its nominal means and deviations (150/30, 200/50, 3.5/0.5)
NominalThresholds ==
    [signature_verification |-> 1,
     response_latency_ms |-> <<90, 240>>,
     message_entropy |-> 2500,
     handshake_duration |-> <<100, 350>>]
ThresholdSets == {InitThresholds, NominalThresholds}

(***************************************************************************)
(* MLDetector: calibration of the thresholds from training data.           *)
(* A sample holds its latency and duration in milliseconds and its entropy *)
(* in thousandths of a bit.  The data sets of the model have an integral   *)
(* mean and an integral sample deviation, so the integer arithmetic below  *)
(* is exact on them.                                                       *)
(***************************************************************************)
Max_NoFloor(a, b) == b
Max(a, b) == IF a > b THEN a ELSE b

RECURSIVE SeqSum(_)
SeqSum(xs) == IF xs = <<>> THEN 0 ELSE Head(xs) + SeqSum(Tail(xs))

\* statistics.mean
Mean(xs) == SeqSum(xs) \div Len(xs)

\* the integer square root
Isqrt(n) == CHOOSE r \in 0..n : r * r <= n /\ n < (r + 1) * (r + 1)

\* statistics.stdev: the sample standard deviation
Stdev(xs) ==
    LET m == Mean(xs)
        sq == [i \in 1..Len(xs) |-> (xs[i] - m) * (xs[i] - m)]
    IN  Isqrt(SeqSum(sq) \div (Len(xs) - 1))

\* _calculate_thresholds() with self.thresholds = th and
\* self.training_data = training_data
_calculate_thresholds_all(th, training_data) ==
    LET normal_data == training_data
        latencies == [i \in 1..Len(normal_data) |->
                         normal_data[i]["response_latency_ms"]]
        durations == [i \in 1..Len(normal_data) |->
                         normal_data[i]["handshake_duration"]]
        entropies == [i \in 1..Len(normal_data) |->
                         normal_data[i]["message_entropy"]]
        lat_mean == Mean(latencies)
        lat_std == IF Len(latencies) > 1 THEN Stdev(latencies) ELSE 50
        dur_mean == Mean(durations)
        dur_std == IF Len(durations) > 1 THEN Stdev(durations) ELSE 100
        ent_mean == Mean(entropies)
        ent_std == IF Len(entropies) > 1 THEN Stdev(entropies) ELSE 500
    IN  IF training_data = <<>> \/ normal_data = <<>> THEN th
        ELSE [th EXCEPT
                !["response_latency_ms"] =
                    <<Max(10, lat_mean - 2 * lat_std), lat_mean + 3 * lat_std>>,
                !["handshake_duration"] =
                    <<Max(50, dur_mean - 2 * dur_std), dur_mean + 3 * dur_std>>,
                !["message_entropy"] = Max(1000, ent_mean - 2 * ent_std)]
_calculate_thresholds(th, training_data) ==
    LET normal_data == SelectSeq(training_data,
                                 LAMBDA d : ~Get(d, "is_fraud", FALSE))
        latencies == [i \in 1..Len(normal_data) |->
                         normal_data[i]["response_latency_ms"]]
        durations == [i \in 1..Len(normal_data) |->
                         normal_data[i]["handshake_duration"]]
        entropies == [i \in 1..Len(normal_data) |->
                         normal_data[i]["message_entropy"]]
        lat_mean == Mean(latencies)
        lat_std == IF Len(latencies) > 1 THEN Stdev(latencies) ELSE 50
        dur_mean == Mean(durations)
        dur_std == IF Len(durations) > 1 THEN Stdev(durations) ELSE 100
        ent_mean == Mean(entropies)
        ent_std == IF Len(entropies) > 1 THEN Stdev(entropies) ELSE 500
    IN  IF training_data = <<>> \/ normal_data = <<>> THEN th
        ELSE [th EXCEPT
                !["response_latency_ms"] =
                    <<Max(10, lat_mean - 2 * lat_std), lat_mean + 3 * lat_std>>,
                !["handshake_duration"] =
                    <<Max(50, dur_mean - 2 * dur_std), dur_mean + 3 * dur_std>>,
                !["message_entropy"] = Max(1000, ent_mean - 2 * ent_std)]

\* MLDetector.train(training_data) on a detector whose thresholds are th
train(th, training_data) == _calculate_thresholds(th, training_data)

Sample(latency, duration, entropy, is_fraud) ==
    [signature_verification |-> IF is_fraud THEN 0 ELSE 1,
     response_latency_ms |-> latency,
     message_entropy |-> entropy,
     handshake_duration |-> duration,
     is_fraud |-> is_fraud]

\* training data: genuine agents at the nominal means and deviations of the
\* synthetic data with one fraudulent sample; and agents on the same host
\* that answer within 1 to 3 ms and finish within 5 to 15 ms
NominalData ==
    <<Sample(120, 150, 3000, FALSE), Sample(150, 200, 3500, FALSE),
      Sample(180, 250, 4000, FALSE), Sample(50, 80, 2000, TRUE)>>
FastData ==
    <<Sample(1, 5, 3000, FALSE), Sample(2, 10, 3500, FALSE),
      Sample(3, 15, 4000, FALSE)>>
TrainingSets == {NominalData, FastData}

\* thresholds read by load_model from a model file whose "thresholds" object
\* has no "handshake_duration" entry
PartialThresholds ==
    [signature_verification |-> 1,
     response_latency_ms |-> <<50, 500>>,
     message_entropy |-> 2000]

\* the thresholds a detector can hold: those of __init__, those calibrated
\* from training data, and those read from a model file
DetectorThresholds ==
    {InitThresholds} \cup {train(InitThresholds, d) : d \in TrainingSets}
    \cup {PartialThresholds}

(***************************************************************************)
(* HTTP layer: exceptions and responses.                                   *)
(***************************************************************************)
HTTPException(status_code, detail) ==
    [type |-> "HTTPException", status_code |-> status_code, detail |-> detail]

\* str(e): an HTTPException prints as "<status_code>: <detail>"
Str(e) == IF e.type = "HTTPException"
          THEN ToString(e.status_code) \o ": " \o e.detail
          ELSE e.detail

\* every handler ends in
\*   except Exception as e: raise HTTPException(status_code=400, detail=str(e))
\* and HTTPException is itself an Exception, so the errors a handler raises
\* on purpose are caught and raised again by it with status 400.
HandlerExcept(e) == HTTPException(400, Str(e))

\* the response FastAPI sends for a returned body / a raised HTTPException
OkResponse(body) == [status_code |-> 200, body |-> body]
ErrorResponse(e) == [status_code |-> e.status_code, body |-> [detail |-> e.detail]]

\* log_event(event_type, data) at time.time() = t: append, keep the last 100
LogLimit == 100
log_event(lg, event_type, data, t) ==
    LET appended == Append(lg, [timestamp |-> t, event_type |-> event_type,
                                data |-> data])
    IN  IF Len(appended) > LogLimit THEN Tail(appended) ELSE appended

(***************************************************************************)
(* State after construction (main.py:33-36, 69-72).                        *)
(***************************************************************************)
NoRequest == [op |-> "none"]
NoResult == [status_code |-> 0, body |-> EmptyDict]

Init ==
    /\ agents_db = EmptyDict
    /\ handshakes_db = EmptyDict
    /\ sessions_db = EmptyDict
    /\ logs = <<>>
    /\ thresholds \in ThresholdSets
    /\ now = StartTime
    /\ request = NoRequest
    /\ result = NoResult

(***************************************************************************)
(* POST /register_agent                                                    *)
(***************************************************************************)
\* HandshakeManager.register_agent; rnd is the value of secrets.token_hex(32)
ManagerRegisterAgent(agent_id, agent_type, secret_seed, rnd, t) ==
    [agent_id |-> agent_id,
     agent_type |-> agent_type,
     secret_seed |-> IF secret_seed \in {None, ""} THEN rnd ELSE secret_seed,
     registered_at |-> t]

\* the body register_agent returns
RegisterBody_Echo(agent_data) ==
    [status |-> "success", agent_id |-> agent_data.agent_id,
     secret_seed |-> agent_data.secret_seed]
RegisterBody(agent_data) ==
    [status |-> "success", agent_id |-> agent_data.agent_id]

register_agent(agent_id, agent_type, secret_seed, rnd) ==
    LET agent_data == ManagerRegisterAgent(agent_id, agent_type, secret_seed, rnd, now)
    IN  /\ Len(logs) < MaxLogs
        /\ request' = [op |-> "register_agent", agent_id |-> agent_id,
                       agent_type |-> agent_type, secret_seed |-> secret_seed]
        /\ agents_db' = Put(agents_db, agent_id, agent_data)
        /\ logs' = log_event(logs, "agent_registered",
                             [agent_id |-> agent_id, agent_type |-> agent_type], now)
        /\ result' = OkResponse(RegisterBody(agent_data))
        /\ UNCHANGED <<handshakes_db, sessions_db, thresholds, now>>

(***************************************************************************)
(* POST /handshake/start                                                   *)
(***************************************************************************)
\* HandshakeManager.start_handshake with fresh random handshake_id and nonce
ManagerStartHandshake(handshake_id, nonce, requester_id, responder_id, t) ==
    [handshake_id |-> handshake_id,
     requester_id |-> requester_id,
     responder_id |-> responder_id,
     nonce |-> nonce,
     created_at |-> t,
     status |-> "pending"]

UsedNonces == {handshakes_db[h]["nonce"] : h \in DOMAIN handshakes_db}

start_handshake(requester_id, responder_id) ==
    /\ request' = [op |-> "start_handshake", requester_id |-> requester_id,
                   responder_id |-> responder_id]
    /\ IF responder_id \notin DOMAIN agents_db
       THEN /\ result' = ErrorResponse(HandlerExcept(
                             HTTPException(404, "Responder agent not found")))
            /\ UNCHANGED <<agents_db, handshakes_db, sessions_db, logs,
                           thresholds, now>>
       ELSE /\ Len(logs) < MaxLogs
            /\ \E handshake_id \in Fresh(HandshakeIdPool, HandshakeIds, DOMAIN handshakes_db),
                  nonce \in Fresh(NoncePool, Nonces, UsedNonces) :
                 LET handshake_data ==
                       ManagerStartHandshake(handshake_id, nonce, requester_id,
                                             responder_id, now)
                 IN  /\ handshakes_db' = Put(handshakes_db, handshake_id, handshake_data)
                     /\ logs' = log_event(logs, "handshake_started",
                                   [handshake_id |-> handshake_id,
                                    requester_id |-> requester_id,
                                    responder_id |-> responder_id,
                                    nonce |-> nonce], now)
                     /\ result' = OkResponse(handshake_data)
            /\ UNCHANGED <<agents_db, sessions_db, thresholds, now>>

(***************************************************************************)
(* POST /handshake/respond                                                 *)
(***************************************************************************)
\* main.py:166-168: the fields respond writes into the handshake record
RespondUpdate_WithStatus(handshake, signature, is_valid, t) ==
    Put(Put(Put(Put(handshake, "signature", signature),
                "signature_valid", is_valid),
            "response_time", t),
        "status", IF is_valid THEN "responded" ELSE "failed")
RespondUpdate_Restamp(handshake, signature, is_valid, t) ==
    Put(Put(Put(Put(handshake, "signature", signature),
                "signature_valid", is_valid),
            "response_time", t),
        "created_at", t)
RespondUpdate_KeepVerdict(handshake, signature, is_valid, t) ==
    Put(Put(Put(handshake, "signature", signature),
            "signature_valid", Get(handshake, "signature_valid", is_valid)),
        "response_time", t)
RespondUpdate(handshake, signature, is_valid, t) ==
    Put(Put(Put(handshake, "signature", signature),
            "signature_valid", is_valid),
        "response_time", t)

\* main.py:150: agents_db.get(response.responder_id), the id of the agent
\* whose key the signature is checked against
RespondAgentId(handshake, responder_id) == responder_id

respond_handshake(handshake_id, signature, responder_id) ==
    /\ request' = [op |-> "respond_handshake", handshake_id |-> handshake_id,
                   signature |-> signature, responder_id |-> responder_id]
    /\ IF handshake_id \notin DOMAIN handshakes_db
       THEN /\ result' = ErrorResponse(HandlerExcept(
                             HTTPException(404, "Handshake not found")))
            /\ UNCHANGED <<handshakes_db, logs>>
       ELSE LET handshake == handshakes_db[handshake_id]
                agent_id == RespondAgentId(handshake, responder_id)
                agent == agents_db[agent_id]
            IN  IF agent_id \notin DOMAIN agents_db
                THEN /\ result' = ErrorResponse(HandlerExcept(
                                      HTTPException(404, "Agent not found")))
                     /\ UNCHANGED <<handshakes_db, logs>>
                ELSE LET secret_seed == Encode(agent.secret_seed)
                         outcome == verify_signature(handshake["nonce"],
                                                     signature, secret_seed)
                         is_valid == outcome.value
                     IN  IF outcome.exc # None
                         THEN /\ result' = ErrorResponse(HandlerExcept(
                                     [type |-> outcome.exc,
                                      detail |-> "comparing strings with non-ASCII characters is not supported"]))
                              /\ UNCHANGED <<handshakes_db, logs>>
                         ELSE /\ Len(logs) < MaxLogs
                              /\ handshakes_db' = Put(handshakes_db, handshake_id,
                                     RespondUpdate(handshake, signature, is_valid, now))
                              /\ logs' = log_event(logs, "handshake_response",
                                     [handshake_id |-> handshake_id,
                                      responder_id |-> responder_id,
                                      signature_valid |-> is_valid], now)
                              /\ result' = OkResponse([status |-> "received",
                                                       signature_valid |-> is_valid])
    /\ UNCHANGED <<agents_db, sessions_db, thresholds, now>>

(***************************************************************************)
(* POST /handshake/verify                                                  *)
(***************************************************************************)
\* int(os.getenv("SESSION_TIMEOUT", 300)), seconds
SESSION_TIMEOUT == 300

\* session_token[:8] + "..."
Truncate8(token) ==
    CASE token = "tok_1xxxxxxx" -> "tok_1xxx..."
      [] token = "tok_2xxxxxxx" -> "tok_2xxx..."
      [] token = "tok_3xxxxxxx" -> "tok_3xxx..."
      [] OTHER -> "tok_4xxx..."

\* the largest advance of the clock between two reads inside one handler
MaxDrift == 5

\* main.py:189: the check that lets verify proceed
VerifyAllowed_Once(handshake) ==
    /\ Get(handshake, "signature_valid", FALSE)
    /\ \A tk \in DOMAIN sessions_db :
          sessions_db[tk].handshake_id # handshake["handshake_id"]
VerifyAllowed(handshake) == Get(handshake, "signature_valid", FALSE)

verify_handshake(handshake_id) ==
    /\ request' = [op |-> "verify_handshake", handshake_id |-> handshake_id]
    /\ IF handshake_id \notin DOMAIN handshakes_db
       THEN /\ result' = ErrorResponse(HandlerExcept(
                             HTTPException(404, "Handshake not found")))
            /\ UNCHANGED <<sessions_db, logs, now>>
       ELSE LET handshake == handshakes_db[handshake_id]
            IN  IF ~VerifyAllowed(handshake)
                THEN /\ result' = ErrorResponse(HandlerExcept(
                                      HTTPException(401, "Invalid signature")))
                     /\ UNCHANGED <<sessions_db, logs, now>>
                ELSE /\ Len(logs) < MaxLogs
                     /\ \E session_token \in Fresh(TokenPool, Tokens, DOMAIN sessions_db),
                           t2 \in {t \in ClockValues \cup {now} :
                                      now <= t /\ t <= now + MaxDrift} :
                          LET session_data ==
                                [token |-> session_token,
                                 handshake_id |-> handshake_id,
                                 requester_id |-> handshake["requester_id"],
                                 responder_id |-> handshake["responder_id"],
                                 created_at |-> now,
                                 expires_at |-> t2 + SESSION_TIMEOUT * 1000]
                              ml_features == extract_features(handshake, t2)
                              anomaly_score == predict_anomaly(thresholds, ml_features)
                          IN  /\ sessions_db' = Put(sessions_db, session_token, session_data)
                              /\ logs' = log_event(logs, "handshake_verified",
                                     [handshake_id |-> handshake_id,
                                      session_token |-> Truncate8(session_token),
                                      anomaly_score |-> anomaly_score], t2)
                              /\ result' = OkResponse(
                                     [status |-> "verified",
                                      session_token |-> session_token,
                                      anomaly_score |-> anomaly_score,
                                      expires_at |-> session_data.expires_at])
                              /\ now' = t2
    /\ UNCHANGED <<agents_db, handshakes_db, thresholds>>

(***************************************************************************)
(* POST /ml_check                                                          *)
(***************************************************************************)
\* float(os.getenv("ANOMALY_THRESHOLD", 0.5)), in thousandths
ANOMALY_THRESHOLD == 500

ml_anomaly_check(handshake_id) ==
    /\ request' = [op |-> "ml_anomaly_check", handshake_id |-> handshake_id]
    /\ IF handshake_id \notin DOMAIN handshakes_db
       THEN result' = ErrorResponse(HandlerExcept(
                          HTTPException(404, "Handshake not found")))
       ELSE LET handshake == handshakes_db[handshake_id]
                features == extract_features(handshake, now)
                anomaly_score == predict_anomaly(thresholds, features)
            IN  result' = OkResponse(
                    [handshake_id |-> handshake_id,
                     anomaly_score |-> anomaly_score,
                     is_anomaly |-> anomaly_score > ANOMALY_THRESHOLD,
                     features |-> features])
    /\ UNCHANGED <<agents_db, handshakes_db, sessions_db, logs, thresholds, now>>

(***************************************************************************)
(* DELETE /clear-logs                                                      *)
(***************************************************************************)
clear_logs ==
    /\ logs # <<>>
    /\ request' = [op |-> "clear_logs"]
    /\ logs' = <<>>
    /\ result' = OkResponse([status |-> "success", message |-> "Logs cleared"])
    /\ UNCHANGED <<agents_db, handshakes_db, sessions_db, thresholds, now>>

(***************************************************************************)
(* The clock advances between requests.                                    *)
(***************************************************************************)
Tick ==
    /\ \E t \in ClockValues : t > now /\ now' = t
    /\ UNCHANGED <<agents_db, handshakes_db, sessions_db, logs, thresholds,
                   request, result>>

RegisterAgent ==
    \E registration \in Registrations, rnd \in RandomSeeds :
       register_agent(registration[1], registration[2], registration[3], rnd)

StartHandshake ==
    \E requester_id \in RequesterIds, responder_id \in AgentIds :
       start_handshake(requester_id, responder_id)

\* the caller signs the nonce of the handshake it answers
RespondHandshake ==
    \E handshake_id \in HandshakeIds, responder_id \in AgentIds :
       \E signature \in SignatureInputs(
              IF handshake_id \in DOMAIN handshakes_db
              THEN handshakes_db[handshake_id]["nonce"] ELSE NoncePool[1]) :
          respond_handshake(handshake_id, signature, responder_id)

VerifyHandshake == \E handshake_id \in HandshakeIds : verify_handshake(handshake_id)

MlAnomalyCheck == \E handshake_id \in HandshakeIds : ml_anomaly_check(handshake_id)

Next ==
    \/ RegisterAgent
    \/ StartHandshake
    \/ RespondHandshake
    \/ VerifyHandshake
    \/ MlAnomalyCheck
    \/ clear_logs
    \/ Tick

Spec == Init /\ [][Next]_vars

(***************************************************************************)
(* Signature verification as a function: the inputs are drawn in the       *)
(* initial state and verify_signature is applied to them.                  *)
(***************************************************************************)
AllSignatures ==
    {generate_signature(NoncePool[i], Encode(k)) : i \in 1..Len(NoncePool), k \in Seeds}
    \cup {Upper(generate_signature(NoncePool[i], Encode(k))) :
             i \in 1..Len(NoncePool), k \in Seeds}
    \cup FakeSignatures \cup {<<>>}

InitSig ==
    /\ agents_db = EmptyDict
    /\ handshakes_db = EmptyDict
    /\ sessions_db = EmptyDict
    /\ logs = <<>>
    /\ thresholds = InitThresholds
    /\ now = StartTime
    /\ \E i \in 1..Len(NoncePool), signature \in AllSignatures, k \in Seeds :
          request = [op |-> "verify_signature", nonce |-> NoncePool[i],
                     signature |-> signature, secret_seed |-> k]
    /\ result = NoResult

ApplyVerifySignature ==
    /\ request.op = "verify_signature"
    /\ result = NoResult
    /\ result' = [status_code |-> 1,
                  body |-> verify_signature(request.nonce, request.signature,
                                            Encode(request.secret_seed))]
    /\ UNCHANGED <<agents_db, handshakes_db, sessions_db, logs, thresholds, now,
                   request>>

NextSig == ApplyVerifySignature

SpecSig == InitSig /\ [][NextSig]_vars

(***************************************************************************)
(* Session lifetime: a handshake that has been answered with the           *)
(* responder's signature is verified, the clock runs up to and past the    *)
(* expiry of the sessions, and HandshakeManager.is_session_valid is asked  *)
(* about tokens.                                                           *)
(***************************************************************************)
\* is_session_valid(session_token, sessions_db) with time.time() = t
is_session_valid_inclusive(session_token, sdb, t) ==
    IF session_token \notin DOMAIN sdb THEN FALSE
    ELSE LET session == sdb[session_token]
         IN  t <= session["expires_at"]
is_session_valid(session_token, sdb, t) ==
    IF session_token \notin DOMAIN sdb THEN FALSE
    ELSE LET session == sdb[session_token]
         IN  t < session["expires_at"]

\* the instants the clock is sampled at, up to and past the expiry of a
\* session issued at the first instants
SessionClockValues ==
    ClockValues \cup {StartTime + SESSION_TIMEOUT * 1000 + d : d \in {-5, 0, 5, 10}}

\* the state after register(agent_b), start(agent_a, agent_b) and a respond
\* with agent_b's signature, the log cleared
InitSession ==
    LET agent == ManagerRegisterAgent("agent_b", "genuine", None,
                                      "9f3c_random_seed", StartTime)
        started == ManagerStartHandshake(HandshakeIdPool[1], NoncePool[1],
                                         "agent_a", "agent_b", StartTime)
        signature == generate_signature(started.nonce, Encode(agent.secret_seed))
    IN  /\ agents_db = Put(EmptyDict, "agent_b", agent)
        /\ handshakes_db = Put(EmptyDict, HandshakeIdPool[1],
                               RespondUpdate(started, signature, TRUE, StartTime))
        /\ sessions_db = EmptyDict
        /\ logs = <<>>
        /\ thresholds \in ThresholdSets
        /\ now = StartTime
        /\ request = NoRequest
        /\ result = NoResult

IsSessionValid ==
    \E session_token \in {TokenPool[i] : i \in 1..Len(TokenPool)} :
       /\ request' = [op |-> "is_session_valid", session_token |-> session_token]
       /\ result' = [status_code |-> 1,
                     body |-> [valid |-> is_session_valid(session_token,
                                                          sessions_db, now)]]
       /\ UNCHANGED <<agents_db, handshakes_db, sessions_db, logs, thresholds, now>>

TickSession ==
    /\ \E t \in SessionClockValues : t > now /\ now' = t
    /\ UNCHANGED <<agents_db, handshakes_db, sessions_db, logs, thresholds,
                   request, result>>

NextSession ==
    \/ VerifyHandshake
    \/ IsSessionValid
    \/ MlAnomalyCheck
    \/ clear_logs
    \/ TickSession

SpecSession == InitSession /\ [][NextSession]_vars

(***************************************************************************)
(* POST /secure_message                                                    *)
(***************************************************************************)
RECURSIVE BitXor(_, _)
\* a ^ b on bytes
BitXor(a, b) ==
    IF a = 0 THEN b
    ELSE IF b = 0 THEN a
    ELSE ((a + b) % 2) + (2 * BitXor(a \div 2, b \div 2))

\* session_token.encode()[:32].ljust(32, b'0') of the tokens of TokenPool, as
\* far as the payloads of the model reach: "tok_"
KeyBytes(session_token) == <<116, 111, 107, 95>>

\* the encrypted_message values of the model: whether base64.b64decode
\* accepts the text, and the bytes it returns:
\* encrypt_message("hi", token), one byte that no key turns into UTF-8, and a
\* text that is not base64
EncryptedMessages ==
    {[text |-> "HAY=", base64 |-> TRUE, b64decode |-> <<28, 6>>],
     [text |-> "yA==", base64 |-> TRUE, b64decode |-> <<200>>],
     [text |-> "a", base64 |-> FALSE, b64decode |-> <<>>]}

\* "[Decryption failed]", the characters as bytes
DecryptionFailed ==
    <<91, 68, 101, 99, 114, 121, 112, 116, 105, 111,
      110, 32, 102, 97, 105, 108, 101, 100, 93>>

\* decrypt_message(encrypted_message, session_token): the characters of the
\* decrypted text as bytes; binascii.Error and UnicodeDecodeError end in the
\* except branch
decrypt_message(encrypted_message, session_token) ==
    LET encrypted_bytes == encrypted_message.b64decode
        key_bytes == KeyBytes(session_token)
        decrypted_bytes ==
            [i \in 1..Len(encrypted_bytes) |->
                BitXor(encrypted_bytes[i], key_bytes[((i - 1) % Len(key_bytes)) + 1])]
    IN  IF ~encrypted_message.base64 THEN DecryptionFailed
        ELSE IF \E i \in 1..Len(decrypted_bytes) : decrypted_bytes[i] >= 128
             THEN DecryptionFailed
             ELSE decrypted_bytes

send_secure_message(session_token, encrypted_message, sender_id, receiver_id) ==
    /\ request' = [op |-> "send_secure_message", session_token |-> session_token,
                   encrypted_message |-> encrypted_message.text,
                   sender_id |-> sender_id, receiver_id |-> receiver_id]
    /\ IF session_token \notin DOMAIN sessions_db
       THEN /\ result' = ErrorResponse(HandlerExcept(
                             HTTPException(401, "Invalid session token")))
            /\ UNCHANGED <<logs, now>>
       ELSE LET session == sessions_db[session_token]
            IN  IF now > session["expires_at"]
                THEN /\ result' = ErrorResponse(HandlerExcept(
                                      HTTPException(401, "Session expired")))
                     /\ UNCHANGED <<logs, now>>
                ELSE /\ Len(logs) < MaxLogs
                     /\ \E t2 \in {t \in ClockValues \cup {now} :
                                      now <= t /\ t <= now + MaxDrift} :
                          LET decrypted == decrypt_message(encrypted_message,
                                                           session_token)
                          IN  /\ logs' = log_event(logs, "secure_message",
                                     [sender_id |-> sender_id,
                                      receiver_id |-> receiver_id,
                                      message_length |-> Len(decrypted),
                                      encrypted |-> TRUE], t2)
                              /\ result' = OkResponse(
                                     [status |-> "delivered",
                                      message_id |-> <<"msg_", t2 \div 1000>>])
                              /\ now' = t2
    /\ UNCHANGED <<agents_db, handshakes_db, sessions_db, thresholds>>

SendSecureMessage ==
    \E session_token \in {TokenPool[i] : i \in 1..Len(TokenPool)},
       encrypted_message \in EncryptedMessages :
       send_secure_message(session_token, encrypted_message, "agent_a", "agent_b")

NextSecure ==
    \/ VerifyHandshake
    \/ IsSessionValid
    \/ SendSecureMessage
    \/ clear_logs
    \/ TickSession

SpecSecure == InitSession /\ [][NextSecure]_vars

(***************************************************************************)
(* Scoring as a function: the thresholds of the detector and a feature     *)
(* vector are drawn in the initial state and predict_anomaly is applied.   *)
(***************************************************************************)
\* the values within MaxMargin of a bound
Around(b) == {b + d : d \in (0 - MaxMargin)..MaxMargin}

\* feature vectors as extract_features builds them, with every timing and
\* entropy feature below, on and above each bound of the thresholds th (of
\* the thresholds of __init__ when th lacks a bound)
FeatureVectors(th) ==
    LET g == IF PredictRaises(th, EmptyDict) = None THEN th ELSE InitThresholds
    IN  [signature_verification : {0, 1},
         response_latency_ms : Around(g["response_latency_ms"][1])
                               \cup Around(g["response_latency_ms"][2]),
         message_entropy : Around(g["message_entropy"]),
         handshake_duration : Around(g["handshake_duration"][1])
                              \cup Around(g["handshake_duration"][2])]

InitScore ==
    /\ agents_db = EmptyDict
    /\ handshakes_db = EmptyDict
    /\ sessions_db = EmptyDict
    /\ logs = <<>>
    /\ thresholds \in DetectorThresholds
    /\ now = StartTime
    /\ \E features \in FeatureVectors(thresholds) :
          request = [op |-> "predict_anomaly", features |-> features]
    /\ result = NoResult

ApplyPredictAnomaly ==
    /\ request.op = "predict_anomaly"
    /\ result = NoResult
    /\ result' = [status_code |-> 1,
                  body |-> [anomaly_score |->
                               predict_anomaly(thresholds, request.features)]]
    /\ UNCHANGED <<agents_db, handshakes_db, sessions_db, logs, thresholds, now,
                   request>>

\* get_anomaly_explanation(features, anomaly_score): the risk level and the
\* list of explanations that the returned text joins
get_anomaly_explanation(features, anomaly_score) ==
    LET latency == Get(features, "response_latency_ms", 0)
        entropy == Get(features, "message_entropy", 0)
        explanations ==
            (IF Get(features, "signature_verification", 1) = 0
             THEN <<"Signature verification failed">> ELSE <<>>)
            \o (IF latency < 50 THEN <<"Response too fast (bot-like)">>
                ELSE IF latency > 1000 THEN <<"Response too slow">> ELSE <<>>)
            \o (IF entropy < 2000
                THEN <<"Low message entropy (repetitive pattern)">> ELSE <<>>)
        risk_level == IF anomaly_score > 700 THEN "HIGH RISK"
                      ELSE IF anomaly_score > 500 THEN "MEDIUM RISK"
                      ELSE "LOW RISK"
    IN  [risk_level |-> risk_level,
         explanations |-> IF explanations # <<>> THEN explanations
                          ELSE <<"Normal handshake pattern">>]

\* the explanation of the score just computed
ApplyExplanation ==
    /\ request.op = "predict_anomaly"
    /\ result.status_code = 1
    /\ request' = [op |-> "get_anomaly_explanation",
                   features |-> request.features,
                   anomaly_score |-> result.body.anomaly_score]
    /\ result' = [status_code |-> 1,
                  body |-> get_anomaly_explanation(request.features,
                                                   result.body.anomaly_score)]
    /\ UNCHANGED <<agents_db, handshakes_db, sessions_db, logs, thresholds, now>>

NextScore == ApplyPredictAnomaly \/ ApplyExplanation

SpecScore == InitScore /\ [][NextScore]_vars

(***************************************************************************)
(* Anomaly scoring of a handshake: agent_b holds a key of its own, a       *)
(* handshake to it has been started, and it is answered, verified and      *)
(* scored at instants from milliseconds to seconds after its creation,     *)
(* under the thresholds of __init__ or calibrated ones.                    *)
(***************************************************************************)
\* the thresholds of __init__ and those calibrated from training data
CalibratedThresholds ==
    {InitThresholds} \cup {train(InitThresholds, d) : d \in TrainingSets}

\* the instants the clock is sampled at: 0, 5, 150 and 2000 ms after the
\* creation of the handshake
AnomalyClockValues == ClockValues \cup {StartTime + d : d \in {150, 2000}}

InitAnomaly ==
    LET agent == ManagerRegisterAgent("agent_b", "genuine", "genuine_secret_b",
                                      "9f3c_random_seed", StartTime)
        started == ManagerStartHandshake(HandshakeIdPool[1], NoncePool[1],
                                         "agent_a", "agent_b", StartTime)
    IN  /\ agents_db = Put(EmptyDict, "agent_b", agent)
        /\ handshakes_db = Put(EmptyDict, HandshakeIdPool[1], started)
        /\ sessions_db = EmptyDict
        /\ logs = <<>>
        /\ thresholds \in CalibratedThresholds
        /\ now = StartTime
        /\ request = NoRequest
        /\ result = NoResult

TickAnomaly ==
    /\ \E t \in AnomalyClockValues : t > now /\ now' = t
    /\ UNCHANGED <<agents_db, handshakes_db, sessions_db, logs, thresholds,
                   request, result>>

NextAnomaly ==
    \/ RespondHandshake
    \/ VerifyHandshake
    \/ MlAnomalyCheck
    \/ clear_logs
    \/ TickAnomaly

SpecAnomaly == InitAnomaly /\ [][NextAnomaly]_vars

(***************************************************************************)
(* Calibration: a detector holding the thresholds of __init__ or of the    *)
(* default model is trained on data sets and scores feature vectors.       *)
(***************************************************************************)
\* a genuine sample at the nominal means, a sample of an agent on the same
\* host, and fraudulent samples
MidSample == Sample(150, 200, 3500, FALSE)
FastSample == Sample(5, 20, 1200, FALSE)
FraudSamples == {Sample(50, 80, 2000, TRUE), Sample(30, 60, 1700, TRUE)}

\* the data sets train is called with: none, fraud only, one normal sample,
\* normal samples that are all equal, and the normal samples of NominalData
\* and of FastData without, with, and among fraudulent samples
CalibrationSets ==
    {<<>>, <<MidSample>>, <<FastSample>>, <<MidSample, MidSample>>,
     <<FastSample, FastSample, FastSample>>, NominalData, FastData,
     SelectSeq(NominalData, LAMBDA d : ~d.is_fraud)}
    \cup {<<x>> : x \in FraudSamples}
    \cup {<<x>> \o FastData : x \in FraudSamples}
    \cup {<<MidSample, x, MidSample>> : x \in FraudSamples}
    \cup {<<x>> \o SelectSeq(NominalData, LAMBDA d : ~d.is_fraud) :
             x \in FraudSamples}

\* feature vectors around the bounds of th, and those of a handshake
\* answered in 5 ms
CalibrationFeatureVectors(th) ==
    FeatureVectors(th)
    \cup [signature_verification : {0, 1},
          response_latency_ms : {5},
          message_entropy : Around(th["message_entropy"]),
          handshake_duration : {5, 200}]

InitCalibration ==
    /\ agents_db = EmptyDict
    /\ handshakes_db = EmptyDict
    /\ sessions_db = EmptyDict
    /\ logs = <<>>
    /\ thresholds \in ThresholdSets
    /\ now = StartTime
    /\ request = NoRequest
    /\ result = NoResult

\* MLDetector.train(training_data)
Train ==
    \E training_data \in CalibrationSets :
       /\ request' = [op |-> "train", training_data |-> training_data]
       /\ thresholds' = train(thresholds, training_data)
       /\ result' = [status_code |-> 1, body |-> [trained |-> TRUE]]
       /\ UNCHANGED <<agents_db, handshakes_db, sessions_db, logs, now>>

\* MLDetector.predict_anomaly(features)
PredictAnomaly ==
    \E features \in CalibrationFeatureVectors(thresholds) :
       /\ request' = [op |-> "predict_anomaly", features |-> features]
       /\ result' = [status_code |-> 1,
                     body |-> [anomaly_score |->
                                  predict_anomaly(thresholds, features)]]
       /\ UNCHANGED <<agents_db, handshakes_db, sessions_db, logs, thresholds, now>>

NextCalibration == Train \/ PredictAnomaly

SpecCalibration == InitCalibration /\ [][NextCalibration]_vars

(***************************************************************************)
(* A train call and a predict_anomaly call on one detector from two        *)
(* threads.  Neither method takes a lock; the interpreter can switch       *)
(* threads between two statements, and one subscript read or write of      *)
(* self.thresholds is a single step.  request holds the two calls in       *)
(* flight: their arguments, the statement each one is at, and the          *)
(* thresholds predict_anomaly has read so far.                             *)
(***************************************************************************)
\* the data sets of the train call: they change every threshold
RaceSets == {NominalData, <<MidSample>>, <<FastSample>>}

InitRace ==
    /\ agents_db = EmptyDict
    /\ handshakes_db = EmptyDict
    /\ sessions_db = EmptyDict
    /\ logs = <<>>
    /\ thresholds = InitThresholds
    /\ now = StartTime
    /\ \E training_data \in RaceSets, features \in FeatureVectors(thresholds) :
          request = [op |-> "train, predict_anomaly",
                     training_data |-> training_data,
                     features |-> features,
                     before |-> thresholds,
                     train_at |-> "response_latency_ms",
                     predict_at |-> "response_latency_ms",
                     read |-> [signature_verification |-> 1]]
    /\ result = NoResult

\* _calculate_thresholds: self.thresholds[key] = ..., then the next statement
CalibrateStep(key, next) ==
    /\ request.train_at = key
    /\ thresholds' = [thresholds EXCEPT
                        ![key] = train(thresholds, request.training_data)[key]]
    /\ request' = [request EXCEPT !.train_at = next]
    /\ UNCHANGED <<agents_db, handshakes_db, sessions_db, logs, now, result>>

CalibrateLatency == CalibrateStep("response_latency_ms", "handshake_duration")
CalibrateDuration == CalibrateStep("handshake_duration", "message_entropy")
CalibrateEntropy == CalibrateStep("message_entropy", "return")

\* predict_anomaly: ... = self.thresholds[key], then the next statement
ReadStep(key, next) ==
    /\ request.predict_at = key
    /\ request' = [request EXCEPT !.predict_at = next,
                                  !.read = Put(request.read, key, thresholds[key])]
    /\ UNCHANGED <<agents_db, handshakes_db, sessions_db, logs, thresholds, now,
                   result>>

ReadLatencyRange == ReadStep("response_latency_ms", "message_entropy")
ReadEntropyMinimum == ReadStep("message_entropy", "handshake_duration")
ReadDurationRange == ReadStep("handshake_duration", "return")

\* predict_anomaly returns the score under the thresholds it has read
ReturnScore ==
    /\ request.predict_at = "return"
    /\ result = NoResult
    /\ result' = [status_code |-> 1,
                  body |-> [anomaly_score |->
                               predict_anomaly(request.read, request.features)]]
    /\ UNCHANGED <<agents_db, handshakes_db, sessions_db, logs, thresholds, now,
                   request>>

NextRace ==
    \/ CalibrateLatency
    \/ CalibrateDuration
    \/ CalibrateEntropy
    \/ ReadLatencyRange
    \/ ReadEntropyMinimum
    \/ ReadDurationRange
    \/ ReturnScore

SpecRace == InitRace /\ [][NextRace]_vars

(***************************************************************************)
(* Two detectors constructed without a model file.  __init__ sets the      *)
(* literal thresholds, load_model finds no file and calls                  *)
(* _initialize_default_model, which calibrates on data drawn with          *)
(* random.gauss from a generator nothing seeds.  thresholds maps each      *)
(* detector to its ThresholdSet.                                           *)
(***************************************************************************)
Detectors == {"detector_1", "detector_2"}

\* the lists one call can draw: genuine samples around 150 ms, 200 ms and
\* 3.5 bits, then a fraudulent sample
_generate_minimal_training_data ==
    {<<Sample(l1, d1, e1, FALSE), Sample(l2, d2, e2, FALSE),
       Sample(50, 80, 2000, TRUE)>> :
        l1 \in {110, 130, 170}, l2 \in {150},
        d1 \in {150, 180, 260}, d2 \in {200},
        e1 \in {3000, 3800, 4200}, e2 \in {3500}}

_initialize_default_model(th, training_data) ==
    _calculate_thresholds(th, training_data)

\* the ThresholdSets a detector can hold after __init__ without a model file
load_model == {_initialize_default_model(InitThresholds, training_data) :
                  training_data \in _generate_minimal_training_data}

DefaultFeatureVectors ==
    {[signature_verification |-> 1, response_latency_ms |-> latency,
      message_entropy |-> entropy, handshake_duration |-> duration] :
        latency \in {100, 150}, entropy \in {2400, 3500},
        duration \in {120, 200}}

InitDefault ==
    /\ agents_db = EmptyDict
    /\ handshakes_db = EmptyDict
    /\ sessions_db = EmptyDict
    /\ logs = <<>>
    /\ thresholds \in [Detectors -> load_model]
    /\ now = StartTime
    /\ request = NoRequest
    /\ result = NoResult

\* the same feature vector scored by each detector
PredictOnEach ==
    \E features \in DefaultFeatureVectors :
       /\ request' = [op |-> "predict_anomaly", features |-> features]
       /\ result' = [status_code |-> 1,
                     body |-> [d \in Detectors |->
                                 predict_anomaly(thresholds[d], features)]]
       /\ UNCHANGED <<agents_db, handshakes_db, sessions_db, logs, thresholds,
                      now>>

NextDefault == PredictOnEach

SpecDefault == InitDefault /\ [][NextDefault]_vars

(***************************************************************************)
(* _calculate_entropy as the float it accumulates.  A float is a multiple  *)
(* of 2^-12 with a mantissa of 10 bits (a double has 53), rounded to       *)
(* nearest, ties to even, after every operation; the loop runs over        *)
(* char_counts in insertion order, the order in which the lowered          *)
(* characters first occur in the text.                                     *)
(***************************************************************************)
RECURSIVE BitLength(_)
BitLength(n) == IF n = 0 THEN 0 ELSE 1 + BitLength(n \div 2)

\* n rounded to a mantissa of 10 bits
RoundFloat(n) ==
    IF n < 1024 THEN n
    ELSE LET ulp == 2 ^ (BitLength(n) - 10)
             q == n \div ulp
             r == n % ulp
             up == 2 * r > ulp \/ (2 * r = ulp /\ q % 2 = 1)
         IN  (IF up THEN q + 1 ELSE q) * ulp

\* count / text_length, in units of 2^-12
FloatDiv(count, text_length) ==
    LET exact == (count * 2 ^ 20) \div text_length
        sticky == IF (count * 2 ^ 20) % text_length # 0 /\ exact % 2 = 0
                  THEN 1 ELSE 0
    IN  RoundFloat(exact + sticky) \div 2 ^ 8

\* -np.log2(probability) for the probabilities of texts of up to 6 characters,
\* in units of 2^-12
FloatLog2 ==
    683 :> 10592 @@ 819 :> 9520 @@ 1024 :> 8192 @@ 1366 :> 6488 @@
    1638 :> 5416 @@ 2048 :> 4096 @@ 2456 :> 3024 @@ 2732 :> 2392 @@
    3072 :> 1700 @@ 3276 :> 1320 @@ 3412 :> 1080 @@ 4096 :> 0

\* entropy -= probability * np.log2(probability)
EntropyStep(entropy, count, text_length) ==
    LET probability == FloatDiv(count, text_length)
        term == RoundFloat(probability * FloatLog2[probability]) \div 2 ^ 12
    IN  RoundFloat(entropy + term)

RECURSIVE EntropyLoop(_, _, _)
\* the loop over char_counts.values(), from the character first met at
\* position i of lowered on
EntropyLoop(lowered, i, entropy) ==
    IF i > Len(lowered) THEN entropy
    ELSE IF \E j \in 1..(i - 1) : lowered[j] = lowered[i]
         THEN EntropyLoop(lowered, i + 1, entropy)
         ELSE EntropyLoop(lowered, i + 1,
                 EntropyStep(entropy,
                    Cardinality({j \in 1..Len(lowered) : lowered[j] = lowered[i]}),
                    Len(lowered)))

_calculate_entropy_float(text) ==
    IF Len(text) = 0 THEN 0
    ELSE EntropyLoop([i \in 1..Len(text) |-> Lower(text[i])], 1, 0)

(***************************************************************************)
(* _calculate_entropy applied to a text, then to rearrangements of it.     *)
(***************************************************************************)
\* the texts of up to 6 characters over three letters, one of them in both
\* cases
Texts == UNION {[1..n -> {"a", "A", "b", "c"}] : n \in 0..6}

Swap(text, i, j) ==
    [k \in 1..Len(text) |-> IF k = i THEN text[j]
                            ELSE IF k = j THEN text[i] ELSE text[k]]

InitEntropy ==
    /\ agents_db = EmptyDict
    /\ handshakes_db = EmptyDict
    /\ sessions_db = EmptyDict
    /\ logs = <<>>
    /\ thresholds = InitThresholds
    /\ now = StartTime
    /\ \E text \in Texts : request = [op |-> "_calculate_entropy", text |-> text]
    /\ result = NoResult

CalculateEntropy ==
    /\ request.op = "_calculate_entropy"
    /\ result = NoResult
    /\ result' = [status_code |-> 1,
                  body |-> _calculate_entropy_float(request.text)]
    /\ UNCHANGED <<agents_db, handshakes_db, sessions_db, logs, thresholds, now,
                   request>>

\* a second call, on the last text with two of its characters exchanged
CalculateRearranged ==
    /\ request.op = "_calculate_entropy"
    /\ result # NoResult
    /\ \E i, j \in 1..Len(request.text) :
          /\ i < j
          /\ request.text[i] # request.text[j]
          /\ request' = [request EXCEPT !.text = Swap(request.text, i, j)]
          /\ result' = [status_code |-> 1,
                        body |-> _calculate_entropy_float(Swap(request.text, i, j))]
    /\ UNCHANGED <<agents_db, handshakes_db, sessions_db, logs, thresholds, now>>

NextEntropy == CalculateEntropy \/ CalculateRearranged

SpecEntropy == InitEntropy /\ [][NextEntropy]_vars

(***************************************************************************)
(* scripts/train_ml.py: the score test_model computes for a test case      *)
(* under the thresholds of the model file.                                 *)
(***************************************************************************)
test_model(th, features) ==
    LET sig == IF features["signature_verification"] = 0 THEN 600 ELSE 0
        lat_min == th["response_latency_ms"][1]
        lat_max == th["response_latency_ms"][2]
        latency == features["response_latency_ms"]
        lat == IF latency < lat_min \/ latency > lat_max THEN 300 ELSE 0
        ent == IF features["message_entropy"] < th["message_entropy"]
               THEN 250 ELSE 0
        dur_min == th["handshake_duration"][1]
        dur_max == th["handshake_duration"][2]
        duration == features["handshake_duration"]
        dur == IF duration < dur_min \/ duration > dur_max THEN 200 ELSE 0
    IN  Min(1000, sig + lat + ent + dur)

\* the test cases of test_model
TestCases ==
    {[signature_verification |-> 1, response_latency_ms |-> 180,
      message_entropy |-> 3800, handshake_duration |-> 250],
     [signature_verification |-> 0, response_latency_ms |-> 150,
      message_entropy |-> 3500, handshake_duration |-> 200],
     [signature_verification |-> 1, response_latency_ms |-> 25,
      message_entropy |-> 2000, handshake_duration |-> 50],
     [signature_verification |-> 1, response_latency_ms |-> 800,
      message_entropy |-> 3200, handshake_duration |-> 900]}

InitTestModel ==
    /\ agents_db = EmptyDict
    /\ handshakes_db = EmptyDict
    /\ sessions_db = EmptyDict
    /\ logs = <<>>
    /\ thresholds \in ThresholdSets
    /\ now = StartTime
    /\ \E features \in TestCases \cup FeatureVectors(thresholds) :
          request = [op |-> "test_model", features |-> features]
    /\ result = NoResult

ApplyTestModel ==
    /\ request.op = "test_model"
    /\ result = NoResult
    /\ result' = [status_code |-> 1,
                  body |-> [anomaly_score |->
                               test_model(thresholds, request.features)]]
    /\ UNCHANGED <<agents_db, handshakes_db, sessions_db, logs, thresholds, now,
                   request>>

NextTestModel == ApplyTestModel

SpecTestModel == InitTestModel /\ [][NextTestModel]_vars

(***************************************************************************)
(* Properties.                                                             *)
(***************************************************************************)
\* the step handles a request (every step of Next but Tick does)
Handled(op) ==
    /\ request'.op = op
    /\ ~ (now' # now /\ UNCHANGED <<agents_db, handshakes_db, sessions_db, logs,
                                    thresholds, request, result>>)

SessionsOf(handshake_id) ==
    {tk \in DOMAIN sessions_db : sessions_db[tk].handshake_id = handshake_id}

\* the signature of the agent a handshake names as its responder
ResponderSignature(handshake) ==
    generate_signature(handshake["nonce"],
                       Encode(agents_db[handshake["responder_id"]].secret_seed))

\* C1: respond records signature_valid = true on a handshake only if the
\* submitted signature is sign(nonce, key of the agent named in the
\* handshake's responder_id), whatever responderId the caller passes.
C1_ResponderKeyBinding ==
    [][\A id \in DOMAIN handshakes_db :
          (/\ Handled("respond_handshake")
           /\ request'.handshake_id = id
           /\ result'.status_code = 200
           /\ handshakes_db'[id]["signature_valid"])
          => request'.signature = ResponderSignature(handshakes_db[id])]_vars

\* C2: verify on a known handshake whose signature_valid is not true fails
\* with Unauthorized (401), issues no session and leaves the session store
\* and the handshake record unchanged.
C2_VerifyUnauthorized ==
    [][\A id \in DOMAIN handshakes_db :
          (/\ Handled("verify_handshake")
           /\ request'.handshake_id = id
           /\ ~Get(handshakes_db[id], "signature_valid", FALSE))
          => /\ result'.status_code = 401
             /\ sessions_db' = sessions_db
             /\ handshakes_db' = handshakes_db]_vars

\* C3, as claimed: the session store holds at most one session per
\* handshake_id, and verify on a handshake that already has a session is
\* rejected with Conflict (409).
C3_VerifiedAtMostOnce ==
    [][/\ \A id \in DOMAIN handshakes_db' : Cardinality(SessionsOf(id)') <= 1
       /\ \A id \in DOMAIN handshakes_db :
             (/\ Handled("verify_handshake")
              /\ request'.handshake_id = id
              /\ SessionsOf(id) # {})
             => result'.status_code = 409]_vars

\* C3, amended: every verify call on a handshake whose signature_valid is
\* true, also one that already has a session, succeeds and inserts exactly one
\* session for that handshake under a token not in the store; the sessions
\* issued before stay in the store as they were.
C3_ReverifyIssuesNewSession ==
    [][\A id \in DOMAIN handshakes_db :
          (/\ Handled("verify_handshake")
           /\ request'.handshake_id = id
           /\ Get(handshakes_db[id], "signature_valid", FALSE))
          => /\ result'.status_code = 200
             /\ result'.body.session_token \notin DOMAIN sessions_db
             /\ DOMAIN sessions_db' =
                   DOMAIN sessions_db \cup {result'.body.session_token}
             /\ sessions_db'[result'.body.session_token].handshake_id = id
             /\ \A tk \in DOMAIN sessions_db : sessions_db'[tk] = sessions_db[tk]]_vars

\* a handshake that has been verified twice: two sessions refer to it
C3_Witness ==
    \E id \in DOMAIN handshakes_db : Cardinality(SessionsOf(id)) >= 2

\* C4: once respond has recorded signature_valid on a handshake, no later
\* step changes its recorded signature_valid, signature or response_time.
C4_VerdictNotOverwritten ==
    [][\A id \in DOMAIN handshakes_db :
          "signature_valid" \in DOMAIN handshakes_db[id]
          => /\ handshakes_db'[id]["signature_valid"] = handshakes_db[id]["signature_valid"]
             /\ handshakes_db'[id]["signature"] = handshakes_db[id]["signature"]
             /\ handshakes_db'[id]["response_time"] = handshakes_db[id]["response_time"]]_vars

\* C5: in every step the status of a handshake stays the same or advances
\* pending -> responded, pending -> failed or responded -> verified;
\* verified is terminal and failed never becomes responded or verified.
StatusAdvance ==
    {<<"pending", "responded">>, <<"pending", "failed">>, <<"responded", "verified">>}
C5_StatusForward ==
    [][\A id \in DOMAIN handshakes_db :
          /\ id \in DOMAIN handshakes_db'
          /\ \/ handshakes_db'[id]["status"] = handshakes_db[id]["status"]
             \/ <<handshakes_db[id]["status"], handshakes_db'[id]["status"]>>
                   \in StatusAdvance]_vars

\* a handshake that was answered, answered again and verified
C5_Witness ==
    \E id \in DOMAIN handshakes_db :
       /\ "signature_valid" \in DOMAIN handshakes_db[id]
       /\ SessionsOf(id) # {}
       /\ request.op = "respond_handshake" /\ result.status_code = 200

\* C6: status is responded after a respond with a valid signature, failed
\* after one with an invalid signature, verified after a successful verify,
\* and pending only while no respond has been processed.
C6_StatusTracksLifecycle ==
    \A id \in DOMAIN handshakes_db :
       handshakes_db[id]["status"] =
          IF SessionsOf(id) # {} THEN "verified"
          ELSE IF "signature_valid" \notin DOMAIN handshakes_db[id] THEN "pending"
          ELSE IF handshakes_db[id]["signature_valid"] THEN "responded"
          ELSE "failed"

\* C7: respond on a known handshake for a registered responder with a wrong
\* signature returns a normal result with signature_valid = false and records
\* signature, signature_valid = false and response_time on the handshake.
C7_WrongSignatureRecorded ==
    [][\A id \in DOMAIN handshakes_db :
          (/\ Handled("respond_handshake")
           /\ request'.handshake_id = id
           /\ request'.responder_id \in DOMAIN agents_db
           /\ request'.signature #
                 generate_signature(handshakes_db[id]["nonce"],
                     Encode(agents_db[request'.responder_id].secret_seed)))
          => /\ result'.status_code = 200
             /\ result'.body.signature_valid = FALSE
             /\ handshakes_db'[id]["signature"] = request'.signature
             /\ handshakes_db'[id]["signature_valid"] = FALSE
             /\ handshakes_db'[id]["response_time"] = now]_vars

\* C8: once an agent_id is registered, no later step changes the secret key
\* or the agent_type stored for it.
C8_AgentImmutable ==
    [][\A a \in DOMAIN agents_db :
          /\ a \in DOMAIN agents_db'
          /\ agents_db'[a].secret_seed = agents_db[a].secret_seed
          /\ agents_db'[a].agent_type = agents_db[a].agent_type]_vars

\* C9: no response of register, start, respond, verify or ml_check and no
\* entry of the event log contains the secret key of a registered agent.
Secrets == {agents_db[a].secret_seed : a \in DOMAIN agents_db}
\* the fields of responses and log entries that hold strings
StringFields == {"status", "agent_id", "agent_type", "secret_seed", "handshake_id",
                 "requester_id", "responder_id", "nonce", "session_token",
                 "detail", "message", "event_type"}
HoldsSecret(rec) ==
    \E f \in DOMAIN rec : f \in StringFields /\ rec[f] \in Secrets
C9_SecretNeverEchoed ==
    /\ ~HoldsSecret(result.body)
    /\ \A i \in 1..Len(logs) : ~HoldsSecret(logs[i]) /\ ~HoldsSecret(logs[i].data)

\* an agent registered with a key of its own, just answered and logged
C9_Witness ==
    /\ request.op = "register_agent"
    /\ request.secret_seed \in CallerSeeds
    /\ result.status_code = 200
    /\ agents_db[request.agent_id].secret_seed = request.secret_seed
    /\ Len(logs) > 0
    /\ logs[Len(logs)].event_type = "agent_registered"

\* C10: verify_signature(N, S, K) returns true if and only if
\* S = generate_signature(N, K).
C10_VerifyExact ==
    (request.op = "verify_signature" /\ result.status_code = 1)
    => ((result.body.exc = None /\ result.body.value)
        <=> request.signature =
              generate_signature(request.nonce, Encode(request.secret_seed)))

\* a signature accepted by verify_signature
C10_Witness ==
    /\ request.op = "verify_signature"
    /\ result.status_code = 1
    /\ result.body.exc = None
    /\ result.body.value

\* C11: signature verification never raises, so every respond call on a known
\* handshake for a registered responder, whatever the signature string,
\* returns normally and records a verdict on the handshake.
C11_RespondAlwaysRecords ==
    [][\A id \in DOMAIN handshakes_db :
          (/\ Handled("respond_handshake")
           /\ request'.handshake_id = id
           /\ request'.responder_id \in DOMAIN agents_db)
          => /\ result'.status_code = 200
             /\ "signature_valid" \in DOMAIN handshakes_db'[id]
             /\ handshakes_db'[id]["signature"] = request'.signature]_vars

\* C12: a call of is_session_valid(token) at time now answers true exactly
\* when token is in the session store and now < expires_at; a session is
\* valid right after the verify that issued it; and a session whose
\* expires_at the clock has reached is invalid and stays invalid in every
\* later state.
C12_SessionValidity ==
    [][/\ Handled("is_session_valid")
          => (result'.body.valid
              <=> /\ request'.session_token \in DOMAIN sessions_db
                  /\ now < sessions_db[request'.session_token]["expires_at"])
       /\ (Handled("verify_handshake") /\ result'.status_code = 200)
          => is_session_valid(result'.body.session_token, sessions_db', now')
       /\ \A tk \in DOMAIN sessions_db :
             now >= sessions_db[tk]["expires_at"]
             => ~is_session_valid(tk, sessions_db', now')]_vars

\* is_session_valid has just answered false for a stored session at the
\* instant of its expires_at
C12_Witness ==
    /\ request.op = "is_session_valid"
    /\ request.session_token \in DOMAIN sessions_db
    /\ now = sessions_db[request.session_token]["expires_at"]
    /\ ~result.body.valid

\* C13: session records are insert-only.  Every step keeps every stored
\* session record as it is; a validity check leaves the session store
\* unchanged; and a verify call leaves it unchanged or adds exactly one
\* record under a token that was not in the store.
C13_SessionsInsertOnly ==
    [][/\ \A tk \in DOMAIN sessions_db :
             tk \in DOMAIN sessions_db' /\ sessions_db'[tk] = sessions_db[tk]
       /\ Handled("is_session_valid") => sessions_db' = sessions_db
       /\ Handled("verify_handshake")
          => \/ sessions_db' = sessions_db
             \/ \E tk \in DOMAIN sessions_db' \ DOMAIN sessions_db :
                   DOMAIN sessions_db' = DOMAIN sessions_db \cup {tk}]_vars

\* a second session was issued after the first one had been checked, and a
\* session has been checked again since
C13_Witness ==
    /\ Cardinality(DOMAIN sessions_db) >= 2
    /\ \E t1 \in DOMAIN sessions_db, t2 \in DOMAIN sessions_db :
          sessions_db[t1]["created_at"] < sessions_db[t2]["created_at"]
    /\ request.op = "is_session_valid"
    /\ result.body.valid

\* C14: every issued session has expires_at = created_at + the configured
\* time to live (300 seconds), also when the clock advances while verify
\* runs.
C14_ExpiresAtExact ==
    \A tk \in DOMAIN sessions_db :
       sessions_db[tk]["expires_at"]
          = sessions_db[tk]["created_at"] + SESSION_TIMEOUT * 1000

\* C15: start with an unregistered responder fails with NotFound (404) and
\* leaves the handshake store unchanged; with a registered responder it
\* stores one new handshake under an id not in the store, with status
\* pending and a nonce no stored handshake has.
C15_StartNotFoundOrPending ==
    [][Handled("start_handshake")
       => IF request'.responder_id \notin DOMAIN agents_db
          THEN /\ result'.status_code = 404
               /\ handshakes_db' = handshakes_db
          ELSE /\ result'.status_code = 200
               /\ result'.body.handshake_id \notin DOMAIN handshakes_db
               /\ DOMAIN handshakes_db' =
                     DOMAIN handshakes_db \cup {result'.body.handshake_id}
               /\ handshakes_db'[result'.body.handshake_id] = result'.body
               /\ result'.body.status = "pending"
               /\ result'.body.nonce \notin UsedNonces]_vars

\* C16: respond with an unknown handshake id or an unregistered responder id
\* fails with NotFound (404, a status other than the 401 of Unauthorized) and
\* leaves every handshake record unchanged.
C16_RespondNotFound ==
    [][(/\ Handled("respond_handshake")
        /\ \/ request'.handshake_id \notin DOMAIN handshakes_db
           \/ request'.responder_id \notin DOMAIN agents_db)
       => /\ result'.status_code = 404
          /\ handshakes_db' = handshakes_db]_vars

\* C17: no step changes the nonce, handshake_id, requester_id, responder_id
\* or created_at of a stored handshake, so after any sequence of respond,
\* verify and ml_check calls they are the values start stored.
IdentityFields == {"nonce", "handshake_id", "requester_id", "responder_id",
                   "created_at"}
C17_IdentityFieldsFixed ==
    [][\A id \in DOMAIN handshakes_db :
          /\ id \in DOMAIN handshakes_db'
          /\ \A f \in IdentityFields :
                handshakes_db'[id][f] = handshakes_db[id][f]]_vars

\* a handshake answered and verified at a later instant than its creation,
\* and just scored by ml_check
C17_Witness ==
    /\ request.op = "ml_anomaly_check"
    /\ result.status_code = 200
    /\ \E id \in DOMAIN handshakes_db :
          /\ "response_time" \in DOMAIN handshakes_db[id]
          /\ handshakes_db[id]["response_time"] > handshakes_db[id]["created_at"]
          /\ SessionsOf(id) # {}

\* predict_anomaly has been applied to the feature vector of the request
Scored == request.op = "predict_anomaly" /\ result.status_code = 1

\* the thresholds hold every bound the scoring rules read
CompleteThresholds == PredictRaises(thresholds, EmptyDict) = None

\* C18: the score predict_anomaly returns lies in [0, 1] for every feature
\* vector and every set of thresholds, also when all four rules fire and
\* when scoring fails inside.
C18_ScoreInUnitInterval ==
    Scored => (0 <= result.body.anomaly_score /\ result.body.anomaly_score <= 1000)

\* all four rules fired (raw sum 1.35) and the score is 1.0
C18_Witness ==
    /\ Scored
    /\ CompleteThresholds
    /\ request.features.signature_verification = 0
    /\ request.features.response_latency_ms < thresholds["response_latency_ms"][1]
    /\ request.features.message_entropy < thresholds["message_entropy"]
    /\ request.features.handshake_duration < thresholds["handshake_duration"][1]
    /\ result.body.anomaly_score = 1000

\* C19: predict_anomaly equals the additive rule score
\*   min(1.0, 0.60*[signature_verification = 0]
\*            + (0.30 if latency < lower bound, else 0.20 if latency > upper)
\*            + 0.25*[entropy < entropy minimum]
\*            + (0.20 if duration < lower bound, else 0.10 if duration > upper))
\* with strict comparisons: a vector with a verified signature whose latency,
\* entropy and duration each sit exactly on a bound of a range scores 0.
Indicator(b) == IF b THEN 1 ELSE 0
AdditiveRuleScore ==
    LET f == request.features
        lower_latency == thresholds["response_latency_ms"][1]
        upper_latency == thresholds["response_latency_ms"][2]
        lower_duration == thresholds["handshake_duration"][1]
        upper_duration == thresholds["handshake_duration"][2]
        raw == 600 * Indicator(f.signature_verification = 0)
               + (IF f.response_latency_ms < lower_latency THEN 300
                  ELSE 200 * Indicator(f.response_latency_ms > upper_latency))
               + 250 * Indicator(f.message_entropy < thresholds["message_entropy"])
               + (IF f.handshake_duration < lower_duration THEN 200
                  ELSE 100 * Indicator(f.handshake_duration > upper_duration))
    IN  IF raw >= 1000 THEN 1000 ELSE raw
OnBounds ==
    /\ request.features.signature_verification = 1
    /\ request.features.response_latency_ms
          \in {thresholds["response_latency_ms"][1], thresholds["response_latency_ms"][2]}
    /\ request.features.message_entropy = thresholds["message_entropy"]
    /\ request.features.handshake_duration
          \in {thresholds["handshake_duration"][1], thresholds["handshake_duration"][2]}
    /\ thresholds["response_latency_ms"][1] <= thresholds["response_latency_ms"][2]
    /\ thresholds["handshake_duration"][1] <= thresholds["handshake_duration"][2]
C19_AdditiveRule ==
    (Scored /\ CompleteThresholds)
    => /\ result.body.anomaly_score = AdditiveRuleScore
       /\ OnBounds => result.body.anomaly_score = 0

\* a vector on the upper latency bound, the entropy minimum and the lower
\* duration bound has been scored
C19_Witness ==
    /\ Scored
    /\ CompleteThresholds
    /\ OnBounds
    /\ request.features.response_latency_ms = thresholds["response_latency_ms"][2]
    /\ request.features.handshake_duration = thresholds["handshake_duration"][1]

\* C20: predict_anomaly does not decrease when one feature moves further
\* outside its normal range while the other features and the thresholds stay
\* fixed: latency or duration, inside its range or below it, moves down to a
\* value below the lower bound, or, inside its range or above it, moves up to
\* a value above the upper bound; entropy moves down; or
\* signature_verification goes from 1 to 0.
FeatureNames == {"signature_verification", "response_latency_ms",
                 "message_entropy", "handshake_duration"}
InRange(a, range) == range[1] <= a /\ a <= range[2]
\* from a value inside the range or below it down to a value below it
MovesDownBelow(a, b, range) ==
    b < a /\ b < range[1] /\ (a < range[1] \/ InRange(a, range))
\* from a value inside the range or above it up to a value above it
MovesUpAbove(a, b, range) ==
    b > a /\ b > range[2] /\ (a > range[2] \/ InRange(a, range))
MovesFurtherOutside(f, g) ==
    \E k \in FeatureNames :
       /\ \A j \in FeatureNames \ {k} : g[j] = f[j]
       /\ CASE k = "signature_verification" -> f[k] = 1 /\ g[k] = 0
            [] k = "message_entropy" -> g[k] < f[k]
            [] OTHER -> \/ MovesDownBelow(f[k], g[k], thresholds[k])
                        \/ MovesUpAbove(f[k], g[k], thresholds[k])
C20_Monotone ==
    (Scored /\ CompleteThresholds)
    => \A g \in FeatureVectors(thresholds) :
          MovesFurtherOutside(request.features, g)
          => predict_anomaly(thresholds, g) >= result.body.anomaly_score

\* ml_check has just scored the handshake id
Checked(id) ==
    /\ request.op = "ml_anomaly_check"
    /\ request.handshake_id = id
    /\ result.status_code = 200

\* C21: for every handshake whose recorded signature_valid is false, ml_check
\* returns anomaly_score >= 0.6 and is_anomaly = true, whatever its timing and
\* entropy features and whatever the calibrated thresholds.
C21_InvalidSignatureFlagged ==
    \A id \in DOMAIN handshakes_db :
       (/\ Checked(id)
        /\ "signature_valid" \in DOMAIN handshakes_db[id]
        /\ ~handshakes_db[id]["signature_valid"])
       => /\ result.body.anomaly_score >= 600
          /\ result.body.is_anomaly

\* a handshake answered with a wrong digest inside the latency range has been
\* scored: only the signature rule fired
C21_Witness ==
    \E id \in DOMAIN handshakes_db :
       /\ Checked(id)
       /\ "signature_valid" \in DOMAIN handshakes_db[id]
       /\ ~handshakes_db[id]["signature_valid"]
       /\ result.body.anomaly_score = 600

\* verify has just succeeded on the handshake id
Verified(id) ==
    /\ request.op = "verify_handshake"
    /\ request.handshake_id = id
    /\ result.status_code = 200

\* the response latency of a handshake lies inside the latency range and the
\* entropy of its signature is at least the entropy minimum
NormalResponse(handshake) ==
    LET latency == handshake["response_time"] - handshake["created_at"]
    IN  /\ thresholds["response_latency_ms"][1] <= latency
        /\ latency <= thresholds["response_latency_ms"][2]
        /\ _calculate_entropy(handshake["signature"]) >= thresholds["message_entropy"]

\* C22: for a handshake with a valid signature whose response latency lies
\* inside the normal latency range and whose signature entropy is at least
\* the entropy minimum, the anomaly score verify returns is below 0.3, at
\* whatever time after the response verify is called.
C22_NormalScoresLow ==
    \A id \in DOMAIN handshakes_db :
       (Verified(id) /\ NormalResponse(handshakes_db[id]))
       => result.body.anomaly_score < 300

\* a handshake answered in time with the right signature and verified long
\* after: the duration rule alone fired
C22_Witness ==
    \E id \in DOMAIN handshakes_db :
       /\ Verified(id)
       /\ NormalResponse(handshakes_db[id])
       /\ now - handshakes_db[id]["created_at"] > thresholds["handshake_duration"][2]
       /\ result.body.anomaly_score = 100

\* C23: with the default thresholds and after every calibration the lower
\* latency bound is at least 10 ms, the lower duration bound at least 50 ms
\* and the entropy minimum at least 1.0; so a handshake answered in 5 ms gets
\* the +0.30 latency penalty and scores at least 0.30, valid signature or not.
C23_FloorsAndFastPenalty ==
    /\ thresholds["response_latency_ms"][1] >= 10
    /\ thresholds["handshake_duration"][1] >= 50
    /\ thresholds["message_entropy"] >= 1000
    /\ (Scored /\ request.features.response_latency_ms = 5)
       => result.body.anomaly_score >= 300

\* after a calibration on samples whose mean latency is below 10 ms, a
\* handshake with a valid signature answered in 5 ms has been scored
C23_Witness ==
    /\ Scored
    /\ request.features.signature_verification = 1
    /\ request.features.response_latency_ms = 5
    /\ thresholds["response_latency_ms"][1] = 10
    /\ thresholds \notin ThresholdSets

\* C24: a handshake with signature_valid = true whose response latency and
\* handshake duration are both below their lower bounds is classified
\* is_anomaly = true by ml_check under the anomaly threshold 0.5, whatever
\* the entropy of its signature.
C24_BotLikeFlagged ==
    \A id \in DOMAIN handshakes_db :
       (/\ Checked(id)
        /\ Get(handshakes_db[id], "signature_valid", FALSE)
        /\ handshakes_db[id]["response_time"] - handshakes_db[id]["created_at"]
              < thresholds["response_latency_ms"][1]
        /\ now - handshakes_db[id]["created_at"] < thresholds["handshake_duration"][1])
       => result.body.is_anomaly

\* get_anomaly_explanation has been applied to a feature vector and its score
Explained == request.op = "get_anomaly_explanation" /\ result.status_code = 1

Named(text) == \E i \in 1..Len(result.body.explanations) :
                  result.body.explanations[i] = text

\* C25: the explanation names exactly the scoring rules that fired in
\* predict_anomaly under the same thresholds, and reports a normal handshake
\* pattern exactly when no rule fired (score 0).
C25_ExplanationMatchesScore ==
    (Explained /\ CompleteThresholds)
    => LET f == request.features
           lower_latency == thresholds["response_latency_ms"][1]
           upper_latency == thresholds["response_latency_ms"][2]
       IN  /\ Named("Signature verification failed")
                 <=> f.signature_verification = 0
           /\ Named("Response too fast (bot-like)")
                 <=> f.response_latency_ms < lower_latency
           /\ Named("Response too slow")
                 <=> (f.response_latency_ms >= lower_latency
                      /\ f.response_latency_ms > upper_latency)
           /\ Named("Low message entropy (repetitive pattern)")
                 <=> f.message_entropy < thresholds["message_entropy"]
           /\ Named("Normal handshake pattern") <=> request.anomaly_score = 0

\* the non-fraud samples of a data set, in their order
NonFraud(data) == SelectSeq(data, LAMBDA d : ~d.is_fraud)

\* C26: calibration uses only non-fraud samples: a train call on a data set
\* with the same non-fraud samples and other fraud samples, from the same
\* thresholds, produces the same thresholds.
C26_FraudSamplesIgnored ==
    [][Handled("train")
       => \A other \in CalibrationSets :
             NonFraud(other) = NonFraud(request'.training_data)
             => train(thresholds, other) = thresholds']_vars

\* a detector has been trained on normal samples mixed with a fraud sample
C26_Witness ==
    /\ request.op = "train"
    /\ NonFraud(request.training_data) # <<>>
    /\ NonFraud(request.training_data) # request.training_data
    /\ thresholds \notin ThresholdSets
    /\ \E other \in CalibrationSets :
          /\ other # request.training_data
          /\ NonFraud(other) = NonFraud(request.training_data)

\* C27: after a calibration on two or more normal samples whose latencies
\* are all the same value the lower latency bound is strictly less than the
\* upper latency bound.
C27_EqualLatenciesNotDegenerate ==
    (/\ request.op = "train"
     /\ Len(NonFraud(request.training_data)) >= 2
     /\ \A i \in 1..Len(NonFraud(request.training_data)) :
           NonFraud(request.training_data)[i].response_latency_ms
              = NonFraud(request.training_data)[1].response_latency_ms)
    => thresholds["response_latency_ms"][1] < thresholds["response_latency_ms"][2]

\* C28: a predict_anomaly call that runs concurrently with a calibration
\* scores under the complete thresholds of before the calibration or the
\* complete thresholds of after it, never under a mixture of the two.
C28_CalibrationAtomic ==
    (request.op = "train, predict_anomaly" /\ request.predict_at = "return")
    => request.read \in {request.before,
                         train(request.before, request.training_data)}

\* the three fields a respond call records on a handshake
ResponseFields == {"signature", "signature_valid", "response_time"}

C30_DefaultDeterministic ==
    \A d1, d2 \in Detectors :
       /\ thresholds[d1] = thresholds[d2]
       /\ request.op = "predict_anomaly" => result.body[d1] = result.body[d2]

\* a text and its entropy, as the last call left them
Calculated == request.op = "_calculate_entropy" /\ result # NoResult

\* C31: the entropy of the empty text is 0, and a text whose characters are
\* those of the last text in another order has the same entropy.
C31_EntropyOfMultiset ==
    [][/\ (Calculated' /\ request'.text = <<>>) => result'.body = 0
       /\ (Calculated /\ Calculated' /\ request'.text # request.text)
             => result'.body = result.body]_vars

\* C37: the entropy of a non-empty text is 0 exactly when the text repeats
\* one character; characters that differ only in case are distinct.
C37_ZeroIffOneCharacter ==
    (Calculated /\ Len(request.text) > 0)
        => (result.body = 0
               <=> Cardinality({request.text[i] : i \in 1..Len(request.text)}) = 1)

\* no respond call has been recorded on the handshake
Pending(handshake) == DOMAIN handshake \cap ResponseFields = {}

\* C32: ml_check on a handshake that no respond has reached succeeds, with the
\* features signature_verification = 0, response_latency_ms = 0 and
\* message_entropy = 0 and an anomaly_score of at least 0.6.
C32_PendingScoredHigh ==
    [][\A id \in DOMAIN handshakes_db :
          (/\ Handled("ml_anomaly_check")
           /\ request'.handshake_id = id
           /\ Pending(handshakes_db[id]))
          => /\ result'.status_code = 200
             /\ result'.body.features.signature_verification = 0
             /\ result'.body.features.response_latency_ms = 0
             /\ result'.body.features.message_entropy = 0
             /\ result'.body.anomaly_score >= 600]_vars

\* a handshake was scored before any respond call, some time after its start
C32_Witness ==
    \E id \in DOMAIN handshakes_db :
       /\ Checked(id)
       /\ Pending(handshakes_db[id])
       /\ result.body.features.handshake_duration > 0
       /\ result.body.anomaly_score >= 600

\* C33: ml_check changes neither the handshake store nor the session store
\* nor the thresholds; it returns a result for a known handshake id and fails
\* with NotFound (404) for an unknown one.
C33_CheckReadOnly ==
    [][Handled("ml_anomaly_check")
       => /\ handshakes_db' = handshakes_db
          /\ sessions_db' = sessions_db
          /\ thresholds' = thresholds
          /\ result'.status_code =
                IF request'.handshake_id \in DOMAIN handshakes_db
                THEN 200 ELSE 404]_vars

\* C34: every session that has not expired refers to a handshake whose
\* recorded signature_valid is true.
C34_LiveSessionsValid ==
    \A tk \in DOMAIN sessions_db :
       now < sessions_db[tk].expires_at
       => /\ sessions_db[tk].handshake_id \in DOMAIN handshakes_db
          /\ Get(handshakes_db[sessions_db[tk].handshake_id],
                 "signature_valid", FALSE)

\* C35: a secure message is accepted exactly when is_session_valid holds of
\* its token at the time of the call, the instant now = expires_at included.
C35_SecureMessageAsIsSessionValid ==
    [][Handled("send_secure_message")
       => (result'.status_code = 200
              <=> is_session_valid(request'.session_token, sessions_db, now))]_vars

\* C36: after any calibration each normal range is well-formed: the lower
\* latency bound is at most the upper one and the lower duration bound at
\* most the upper one, so some latency and some duration incur no penalty.
C36_RangesWellFormed ==
    /\ thresholds["response_latency_ms"][1] <= thresholds["response_latency_ms"][2]
    /\ thresholds["handshake_duration"][1] <= thresholds["handshake_duration"][2]

\* C38: the score test_model computes for a feature vector equals the score
\* predict_anomaly gives it under the same thresholds, also when the latency
\* or the duration lies above its upper bound.
C38_TestModelAsPredictAnomaly ==
    (request.op = "test_model" /\ result # NoResult)
    => result.body.anomaly_score = predict_anomaly(thresholds, request.features)

====
